---- MODULE Spec2Model ----
(***************************************************************************)
(* SSO credential provider (src/src/sso.rs).                               *)
(*                                                                         *)
(* One SSOProviderState shared behind Arc<Mutex<..>> by every clone of the *)
(* SSOProvider; callers run do_provider_credentials concurrently.  Each    *)
(* await of the function is a step boundary: the lock, the profile load,   *)
(* the token file read and the get_role_credentials call.  An external     *)
(* call is two steps: the collaborator answers (the answer is drawn from a *)
(* small set and stored in resp), then the code consumes the answer.       *)
(***************************************************************************)
EXTENDS Integers, FiniteSets, Sequences, TLC

\* ------------------------------------------------------------------ bounds
NumProcs == 2        \* concurrent callers
MaxTime == 1         \* the clock runs 0..MaxTime
MaxRequests == 2     \* requests issued in one behaviour
MaxHandles == 2      \* SSOProvider values (the original and its clones)

Procs == 1..NumProcs
Handles == 1..MaxHandles

\* ------------------------------------------------------------------ Option<T>
None == [some |-> FALSE]
Some(v) == [some |-> TRUE, val |-> v]
IsNone(o) == ~o.some
IsSome(o) == o.some

\* ------------------------------------------------------------------ errors
CredentialsNotLoaded == [type |-> "CredentialsNotLoaded"]
ProviderError(cause) == [type |-> "ProviderError", source |-> cause]
RequiredConfigMissing(field) == [type |-> "RequiredConfigMissing", field |-> field]
Unhandled(e) == [type |-> "Unhandled", source |-> e]

Ok(v) == [ok |-> TRUE, val |-> v]
Err(e) == [ok |-> FALSE, err |-> e]

\* ------------------------------------------------------------------ state
SSOProviderStateDefault == [sso_config |-> None, cached_token |-> None]

VARIABLES
    state,        \* the SSOProviderState behind the Arc<Mutex<..>>
    lock,         \* holder of the tokio Mutex: 0 when free, else the process
    handles,      \* the SSOProvider values alive, all sharing `state`
    pc,           \* where each caller's do_provider_credentials future stands
    resp,         \* the answer of the external call the caller is awaiting
    ops,          \* external calls made so far by the caller's request
    last,         \* the request that returned most recently
    now,          \* Utc::now()
    issued,       \* requests issued so far
    configLoads,  \* profile loads observed by the profile collaborator
    failedLoads,  \* those of them that returned an error
    herd          \* every caller was waiting on the lock at once, config unloaded

vars ==
    <<state, lock, handles, pc, resp, ops, last, now, issued, configLoads, failedLoads, herd>>

NoResp == [kind |-> "none"]
NoOps == [loads |-> 0, reads |-> 0, exchanges |-> 0]
NoRequest == [proc |-> 0, ops |-> NoOps, result |-> [ok |-> FALSE, err |-> [type |-> "none"]]]
Returned(p, o, r) == [proc |-> p, ops |-> o, result |-> r]

\* ------------------------------------------------------------------ inputs
\* What aws_config::profile::load answers: an error, or a profile set in
\* which each of the four keys is present or not.
ConfigKeys == {"sso_account_id", "sso_role_name", "sso_region", "sso_start_url"}

KeyValues(k) ==
    IF k = "sso_start_url" THEN {"https://a.example", "https://b.example"}
    ELSE IF k = "sso_account_id" THEN {"111122223333"}
    ELSE IF k = "sso_role_name" THEN {"Admin"}
    ELSE {"us-east-1"}

Properties ==
    {f \in [ConfigKeys -> {None} \cup {Some(v) : v \in UNION {KeyValues(k) : k \in ConfigKeys}}] :
        \A k \in ConfigKeys : IsSome(f[k]) => f[k].val \in KeyValues(k)}

ProfileAnswers ==
    {[kind |-> "load_error"]}
    \cup {[kind |-> "profile_set", empty |-> TRUE, props |-> [k \in ConfigKeys |-> None]]}
    \cup {[kind |-> "profile_set", empty |-> FALSE, props |-> f] : f \in Properties}

\* What the token cache file holds: unreadable, text that is no JSON object,
\* or a JSON object with the camelCase keys, each present or not.
ExpiryTimes == 0..(MaxTime + 1)
AccessTokens == {"", "tokA"}

JsonObjects ==
    [accessToken : {None} \cup {Some(t) : t \in AccessTokens},
     expiresAt : {None} \cup {Some(t) : t \in ExpiryTimes},
     region : {Some("us-east-1")},
     startUrl : {Some("https://a.example")}]

FileAnswers ==
    {[kind |-> "io_error"], [kind |-> "text", json |-> None]}
    \cup {[kind |-> "text", json |-> Some(o)] : o \in JsonObjects}

\* What get_role_credentials answers: an SdkError, or an output whose
\* role_credentials payload may be absent and whose fields may be absent.
ExpirationSecs == {1, 3600}

RoleCredentials ==
    [access_key_id : {None, Some("AKIA")},
     secret_access_key : {None, Some("secret")},
     session_token : {None, Some("session")},
     expiration : ExpirationSecs]

ExchangeAnswers ==
    {[kind |-> "sdk_error", cause |-> "dispatch_failure"]}
    \cup {[kind |-> "output", role_credentials |-> None]}
    \cup {[kind |-> "output", role_credentials |-> Some(rc)] : rc \in RoleCredentials}

\* ------------------------------------------------------------------ load_sso_config
ProfileGet(profile_set, key) == profile_set.props[key]

\* Mutant: the sso_region key is not required.
load_sso_config_NoRegionCheck(answer) ==
    IF answer.kind = "load_error" THEN Err(CredentialsNotLoaded)
    ELSE IF answer.empty THEN Err(CredentialsNotLoaded)
    ELSE IF IsSome(ProfileGet(answer, "sso_account_id"))
            /\ IsSome(ProfileGet(answer, "sso_role_name"))
            /\ IsSome(ProfileGet(answer, "sso_start_url"))
         THEN Ok([sso_account_id |-> ProfileGet(answer, "sso_account_id").val,
                  sso_role_name |-> ProfileGet(answer, "sso_role_name").val,
                  sso_region |-> IF IsSome(ProfileGet(answer, "sso_region"))
                                 THEN ProfileGet(answer, "sso_region").val ELSE "",
                  sso_start_url |-> ProfileGet(answer, "sso_start_url").val])
         ELSE Err(CredentialsNotLoaded)

load_sso_config(answer) ==
    IF answer.kind = "load_error" THEN Err(CredentialsNotLoaded)
    ELSE IF answer.empty THEN Err(CredentialsNotLoaded)
    ELSE IF IsSome(ProfileGet(answer, "sso_account_id"))
            /\ IsSome(ProfileGet(answer, "sso_role_name"))
            /\ IsSome(ProfileGet(answer, "sso_region"))
            /\ IsSome(ProfileGet(answer, "sso_start_url"))
         THEN Ok([sso_account_id |-> ProfileGet(answer, "sso_account_id").val,
                  sso_role_name |-> ProfileGet(answer, "sso_role_name").val,
                  sso_region |-> ProfileGet(answer, "sso_region").val,
                  sso_start_url |-> ProfileGet(answer, "sso_start_url").val])
         ELSE Err(CredentialsNotLoaded)

\* ------------------------------------------------------------------ load_token_file
\* serde_json::from_str::<CachedSSOToken> with rename_all = "camelCase":
\* every field is required, and accessToken becomes access_token, and so on.
ParseCachedSSOToken(json) ==
    IF IsNone(json) THEN None
    ELSE IF IsSome(json.val.accessToken) /\ IsSome(json.val.expiresAt)
            /\ IsSome(json.val.region) /\ IsSome(json.val.startUrl)
         THEN Some([access_token |-> json.val.accessToken.val,
                    expires_at |-> json.val.expiresAt.val,
                    region |-> json.val.region.val,
                    start_url |-> json.val.startUrl.val])
         ELSE None

ReadToString(answer) == IF answer.kind = "text" THEN Some(answer.json) ELSE None

\* Mutant: the empty access token is kept.
RejectEmptyToken_Keep(tok) == Some(tok)

RejectEmptyToken(tok) == IF tok.access_token = "" THEN None ELSE Some(tok)

\* Mutant: a token in the file that expires now is accepted.
FileTokenExpired_Strict(tok, t) == tok.expires_at < t

FileTokenExpired(tok, t) == tok.expires_at <= t

RejectExpiredToken(tok, t) == IF FileTokenExpired(tok, t) THEN None ELSE Some(tok)

\* Mutant: the empty access token is not rejected.
load_token_file_NoEmptyCheck(answer, t) ==
    LET contents == ReadToString(answer)
        parsed == IF IsSome(contents) THEN ParseCachedSSOToken(contents.val) ELSE None
    IN  IF IsSome(parsed) THEN RejectExpiredToken(parsed.val, t) ELSE None

\* The chain of and_then: each stage runs only on Some.
load_token_file(answer, t) ==
    LET contents == ReadToString(answer)
        parsed == IF IsSome(contents) THEN ParseCachedSSOToken(contents.val) ELSE None
        nonempty == IF IsSome(parsed) THEN RejectEmptyToken(parsed.val) ELSE None
    IN  IF IsSome(nonempty) THEN RejectExpiredToken(nonempty.val, t) ELSE None

\* ------------------------------------------------------------------ the exchange
\* Utc.timestamp(secs, 0), and DateTime<Utc> into SystemTime.
\* Mutant: the epoch value is taken as milliseconds.
UtcTimestamp_Millis(secs, nsecs) == [secs |-> secs \div 1000, nsecs |-> (secs % 1000) * 1000000]

UtcTimestamp(secs, nsecs) == [secs |-> secs, nsecs |-> nsecs]
IntoSystemTime(dt) == [tv_sec |-> dt.secs, tv_nsec |-> dt.nsecs]

\* Credentials::new(access_key_id, secret_access_key, session_token, expires_after, provider_name)
CredentialsNew(akid, secret, token, expiry, name) ==
    [access_key_id |-> akid, secret_access_key |-> secret, session_token |-> token,
     expires_after |-> expiry, provider_name |-> name]

\* The request sent: region of the client, account, role and access token.
GetRoleCredentialsRequest(st) ==
    [region |-> st.sso_config.val.sso_region,
     account_id |-> st.sso_config.val.sso_account_id,
     role_name |-> st.sso_config.val.sso_role_name,
     access_token |-> st.cached_token.val.access_token]

\* .send().await.map_err(ProviderError)?.role_credentials
\* Mutant: a failed call is reported as CredentialsNotLoaded.
SendResult_NotLoaded(answer) ==
    IF answer.kind = "sdk_error" THEN Err(CredentialsNotLoaded)
    ELSE Ok(answer.role_credentials)

SendResult(answer) ==
    IF answer.kind = "sdk_error" THEN Err(ProviderError(answer.cause))
    ELSE Ok(answer.role_credentials)

\* Mutant: the fields are tested in the reverse order.
CredentialsFromRole_Reversed(rc) ==
    IF IsNone(rc.session_token)
        THEN Err(Unhandled(RequiredConfigMissing("session_token")))
    ELSE IF IsNone(rc.secret_access_key)
        THEN Err(Unhandled(RequiredConfigMissing("secret_access_key")))
    ELSE IF IsNone(rc.access_key_id)
        THEN Err(Unhandled(RequiredConfigMissing("access_key_id")))
    ELSE Ok(CredentialsNew(rc.access_key_id.val, rc.secret_access_key.val,
                           Some(rc.session_token.val),
                           Some(IntoSystemTime(UtcTimestamp(rc.expiration, 0))), "sso"))

\* The arguments of Credentials::new are evaluated in order, each with `?`.
CredentialsFromRole(rc) ==
    LET expiration == UtcTimestamp(rc.expiration, 0) IN
    IF IsNone(rc.access_key_id)
        THEN Err(Unhandled(RequiredConfigMissing("access_key_id")))
    ELSE IF IsNone(rc.secret_access_key)
        THEN Err(Unhandled(RequiredConfigMissing("secret_access_key")))
    ELSE IF IsNone(rc.session_token)
        THEN Err(Unhandled(RequiredConfigMissing("session_token")))
    ELSE Ok(CredentialsNew(rc.access_key_id.val, rc.secret_access_key.val,
                           Some(rc.session_token.val),
                           Some(IntoSystemTime(expiration)), "sso"))

\* Mutant: an absent payload is reported as a missing field.
AbsentPayloadError_Unhandled == Unhandled(RequiredConfigMissing("role_credentials"))

AbsentPayloadError == CredentialsNotLoaded

ExchangeResult(answer) ==
    LET sent == SendResult(answer) IN
    IF ~sent.ok THEN sent
    ELSE IF IsSome(sent.val) THEN CredentialsFromRole(sent.val.val)
    ELSE Err(AbsentPayloadError)

\* ------------------------------------------------------------------ the provider
\* Mutant: the config is loaded on every request.
NeedsConfigLoad_Always(st) == TRUE

\* Mutant: the config is loaded again whenever no token is held.
NeedsConfigLoad_NoToken(st) == IsNone(st.sso_config) \/ IsNone(st.cached_token)

\* Mutant: the load is attempted once and its failure is remembered.
NeedsConfigLoad_OnlyFirst(st) == IsNone(st.sso_config) /\ configLoads = 0

NeedsConfigLoad(st) == IsNone(st.sso_config)

\* Mutant: a held token that expires now is kept.
HeldTokenExpired_Strict(tok, t) == tok.expires_at < t

HeldTokenExpired(tok, t) == tok.expires_at <= t

\* Mutant: the held token is dropped on every request.
DropExpired_Always(st, t) == [st EXCEPT !.cached_token = None]

\* if let Some(token) = &state.cached_token { if expired { cached_token = None } }
DropExpired(st, t) ==
    IF IsSome(st.cached_token) /\ HeldTokenExpired(st.cached_token.val, t)
    THEN [st EXCEPT !.cached_token = None]
    ELSE st

\* Mutant: the lock is granted while it is held.
LockFree_Always == TRUE

LockFree == lock = 0

Inside(p) == pc[p] \notin {"idle", "lock"}

Init ==
    /\ state = SSOProviderStateDefault
    /\ lock = 0
    /\ handles = {1}
    /\ pc = [p \in Procs |-> "idle"]
    /\ resp = [p \in Procs |-> NoResp]
    /\ ops = [p \in Procs |-> NoOps]
    /\ last = NoRequest
    /\ now = 0
    /\ issued = 0
    /\ configLoads = 0
    /\ failedLoads = 0
    /\ herd = FALSE

\* #[derive(Clone)] on SSOProvider: the clone shares the Arc.
Clone(h) ==
    /\ h \notin handles
    /\ h - 1 \in handles
    /\ handles' = handles \cup {h}
    /\ UNCHANGED <<state, lock, pc, resp, ops, last, now, issued, configLoads, failedLoads, herd>>

\* provide_credentials on any handle: the future starts and awaits the lock.
ProvideCredentials(p, h) ==
    /\ h \in handles
    /\ pc[p] = "idle"
    /\ issued < MaxRequests
    /\ issued' = issued + 1
    /\ pc' = [pc EXCEPT ![p] = "lock"]
    /\ herd' = (herd \/ ((\A q \in Procs : pc'[q] = "lock")
                          /\ IsNone(state.sso_config) /\ configLoads = 0))
    /\ UNCHANGED <<state, lock, handles, resp, ops, last, now, configLoads, failedLoads>>

\* Mutant: an error return leaves the lock held.
Finish_KeepLockOnError(p, r) ==
    /\ pc' = [pc EXCEPT ![p] = "idle"]
    /\ last' = Returned(p, ops[p], r)
    /\ ops' = [ops EXCEPT ![p] = NoOps]
    /\ resp' = [resp EXCEPT ![p] = NoResp]
    /\ lock' = IF r.ok THEN 0 ELSE lock

\* The return of do_provider_credentials: the MutexGuard is dropped.
Finish(p, r) ==
    /\ pc' = [pc EXCEPT ![p] = "idle"]
    /\ last' = Returned(p, ops[p], r)
    /\ ops' = [ops EXCEPT ![p] = NoOps]
    /\ resp' = [resp EXCEPT ![p] = NoResp]
    /\ lock' = 0

\* state.lock().await, then the test of sso_config.
Lock(p) ==
    /\ pc[p] = "lock"
    /\ LockFree
    /\ lock' = p
    /\ IF NeedsConfigLoad(state)
       THEN /\ pc' = [pc EXCEPT ![p] = "load_sso_config"]
            /\ ops' = [ops EXCEPT ![p].loads = @ + 1]
            /\ configLoads' = configLoads + 1
       ELSE /\ pc' = [pc EXCEPT ![p] = "check_token"]
            /\ UNCHANGED <<ops, configLoads>>
    /\ UNCHANGED <<state, handles, resp, last, now, issued, failedLoads, herd>>

\* aws_config::profile::load answers.
ProfileAnswer(p) ==
    /\ pc[p] = "load_sso_config"
    /\ \E a \in ProfileAnswers : resp' = [resp EXCEPT ![p] = a]
    /\ pc' = [pc EXCEPT ![p] = "load_sso_config_ret"]
    /\ UNCHANGED <<state, lock, handles, ops, last, now, issued, configLoads, failedLoads, herd>>

\* state.sso_config = Some(load_sso_config().await?)
ConfigLoaded(p) ==
    /\ pc[p] = "load_sso_config_ret"
    /\ LET r == load_sso_config(resp[p]) IN
       IF r.ok
       THEN /\ state' = [state EXCEPT !.sso_config = Some(r.val)]
            /\ pc' = [pc EXCEPT ![p] = "check_token"]
            /\ resp' = [resp EXCEPT ![p] = NoResp]
            /\ UNCHANGED <<lock, ops, last, failedLoads>>
       ELSE /\ Finish(p, r)
            /\ failedLoads' = failedLoads + 1
            /\ UNCHANGED state
    /\ UNCHANGED <<handles, now, issued, configLoads, herd>>

\* The expiry test of the held token, then either the file read or the exchange.
CheckToken(p) ==
    /\ pc[p] = "check_token"
    /\ state' = DropExpired(state, now)
    /\ IF IsNone(state'.cached_token)
       THEN /\ pc' = [pc EXCEPT ![p] = "load_token_file"]
            /\ ops' = [ops EXCEPT ![p].reads = @ + 1]
       ELSE /\ pc' = [pc EXCEPT ![p] = "get_role_credentials"]
            /\ ops' = [ops EXCEPT ![p].exchanges = @ + 1]
    /\ UNCHANGED <<lock, handles, resp, last, now, issued, configLoads, failedLoads, herd>>

\* tokio::fs::read_to_string answers.
FileAnswer(p) ==
    /\ pc[p] = "load_token_file"
    /\ \E a \in FileAnswers : resp' = [resp EXCEPT ![p] = a]
    /\ pc' = [pc EXCEPT ![p] = "load_token_file_ret"]
    /\ UNCHANGED <<state, lock, handles, ops, last, now, issued, configLoads, failedLoads, herd>>

\* Mutant: the file is read again when it gave no token.
TokenLoaded_Retry(p) ==
    /\ pc[p] = "load_token_file_ret"
    /\ state' = [state EXCEPT !.cached_token = load_token_file(resp[p], now)]
    /\ IF IsNone(state'.cached_token)
       THEN /\ pc' = [pc EXCEPT ![p] = "load_token_file"]
            /\ ops' = [ops EXCEPT ![p].reads = @ + 1]
       ELSE /\ pc' = [pc EXCEPT ![p] = "get_role_credentials"]
            /\ ops' = [ops EXCEPT ![p].exchanges = @ + 1]
    /\ resp' = [resp EXCEPT ![p] = NoResp]
    /\ UNCHANGED <<lock, last, handles, now, issued, configLoads, failedLoads, herd>>

\* state.cached_token = load_token_file(..).await; then the is_none test.
TokenLoaded(p) ==
    /\ pc[p] = "load_token_file_ret"
    /\ state' = [state EXCEPT !.cached_token = load_token_file(resp[p], now)]
    /\ IF IsNone(state'.cached_token)
       THEN Finish(p, Err(CredentialsNotLoaded))
       ELSE /\ pc' = [pc EXCEPT ![p] = "get_role_credentials"]
            /\ ops' = [ops EXCEPT ![p].exchanges = @ + 1]
            /\ resp' = [resp EXCEPT ![p] = NoResp]
            /\ UNCHANGED <<lock, last>>
    /\ UNCHANGED <<handles, now, issued, configLoads, failedLoads, herd>>

\* get_role_credentials().send() answers.
ExchangeAnswer(p) ==
    /\ pc[p] = "get_role_credentials"
    /\ \E a \in ExchangeAnswers : resp' = [resp EXCEPT ![p] = a]
    /\ pc' = [pc EXCEPT ![p] = "get_role_credentials_ret"]
    /\ UNCHANGED <<state, lock, handles, ops, last, now, issued, configLoads, failedLoads, herd>>

\* Mutant: a failed exchange invalidates the held token.
ExchangeDone_Invalidate(p) ==
    /\ pc[p] = "get_role_credentials_ret"
    /\ Finish(p, ExchangeResult(resp[p]))
    /\ state' = IF ExchangeResult(resp[p]).ok THEN state
                ELSE [state EXCEPT !.cached_token = None]
    /\ UNCHANGED <<handles, now, issued, configLoads, failedLoads, herd>>

\* The answer is mapped to the result of the request.
ExchangeDone(p) ==
    /\ pc[p] = "get_role_credentials_ret"
    /\ Finish(p, ExchangeResult(resp[p]))
    /\ UNCHANGED <<state, handles, now, issued, configLoads, failedLoads, herd>>

\* The clock advances.
Tick ==
    /\ now < MaxTime
    /\ now' = now + 1
    /\ UNCHANGED <<state, lock, handles, pc, resp, ops, last, issued, configLoads, failedLoads, herd>>

Next ==
    \/ \E h \in Handles : Clone(h)
    \/ \E p \in Procs, h \in Handles : ProvideCredentials(p, h)
    \/ \E p \in Procs : Lock(p)
    \/ \E p \in Procs : ProfileAnswer(p)
    \/ \E p \in Procs : ConfigLoaded(p)
    \/ \E p \in Procs : CheckToken(p)
    \/ \E p \in Procs : FileAnswer(p)
    \/ \E p \in Procs : TokenLoaded(p)
    \/ \E p \in Procs : ExchangeAnswer(p)
    \/ \E p \in Procs : ExchangeDone(p)
    \/ Tick

Spec == Init /\ [][Next]_vars

\* Every awaited call answers and every ready continuation runs (weak
\* fairness); the tokio Mutex hands the lock to each waiter in turn (strong
\* fairness of Lock, which is disabled while another request holds it).
Fairness ==
    \A p \in Procs :
        /\ SF_vars(Lock(p))
        /\ WF_vars(ProfileAnswer(p))
        /\ WF_vars(ConfigLoaded(p))
        /\ WF_vars(CheckToken(p))
        /\ WF_vars(FileAnswer(p))
        /\ WF_vars(TokenLoaded(p))
        /\ WF_vars(ExchangeAnswer(p))
        /\ WF_vars(ExchangeDone(p))

FairSpec == Spec /\ Fairness

\* ================================================================== claims
TookStep(p) == pc'[p] # pc[p]

AllIdle == \A p \in Procs : pc[p] = "idle"

\* A profile answer that yields no config: the load failed, the set is empty,
\* or one of the four keys is absent.
BadProfile(a) ==
    \/ a.kind = "load_error"
    \/ a.empty
    \/ \E k \in ConfigKeys : IsNone(a.props[k])

\* C1: a request whose config load fails (profile set not loadable, empty, or
\* one of the four keys absent) returns CredentialsNotLoaded, having read no
\* token file and called no exchange, and leaves the state as it was.
C1_ConfigFailureAborts ==
    [][\A p \in Procs :
          (pc[p] = "load_sso_config_ret" /\ TookStep(p) /\ BadProfile(resp[p]))
              => /\ pc'[p] = "idle"
                 /\ last'.proc = p
                 /\ last'.result = Err(CredentialsNotLoaded)
                 /\ last'.ops.reads = 0
                 /\ last'.ops.exchanges = 0
                 /\ state' = state]_vars

\* C1 witness: a request has returned CredentialsNotLoaded after its config
\* load, with no file read and no exchange.
C1_Witness ==
    /\ last.proc \in Procs
    /\ last.ops = [loads |-> 1, reads |-> 0, exchanges |-> 0]
    /\ last.result = Err(CredentialsNotLoaded)
    /\ failedLoads >= 1

\* A token file answer that holds a usable token at time t.
UsableFile(a, t) ==
    /\ a.kind = "text"
    /\ IsSome(a.json)
    /\ \A f \in {"accessToken", "expiresAt", "region", "startUrl"} : IsSome(a.json.val[f])
    /\ a.json.val.accessToken.val # ""
    /\ a.json.val.expiresAt.val > t

\* C2: the exchange is called only in a step whose token check leaves a held
\* token with a non-empty access token and expires_at strictly after the
\* current time; a request whose file read yields no such token returns
\* CredentialsNotLoaded without any exchange call.
C2_ExchangeOnlyWithValidToken ==
    [][\A p \in Procs :
          /\ (ops'[p].exchanges > ops[p].exchanges)
                => /\ pc[p] \in {"check_token", "load_token_file_ret"}
                   /\ IsSome(state'.cached_token)
                   /\ state'.cached_token.val.access_token # ""
                   /\ state'.cached_token.val.expires_at > now
                   /\ IsSome(state'.sso_config)
          /\ (pc[p] = "load_token_file_ret" /\ TookStep(p) /\ ~UsableFile(resp[p], now))
                => /\ pc'[p] = "idle"
                   /\ last'.proc = p
                   /\ last'.result = Err(CredentialsNotLoaded)
                   /\ last'.ops.exchanges = 0]_vars

\* C2 witness: a request has returned CredentialsNotLoaded after reading the
\* token file, with no exchange, while another exchange is possible later.
C2_Witness ==
    /\ last.proc \in Procs
    /\ last.ops.reads = 1
    /\ last.ops.exchanges = 0
    /\ last.result = Err(CredentialsNotLoaded)
    /\ IsSome(state.sso_config)
    /\ IsNone(state.cached_token)

LoadsInFlight ==
    Cardinality({p \in Procs : pc[p] \in {"load_sso_config", "load_sso_config_ret"}})

\* C3 as stated: after all callers waited on the lock together with the
\* config unloaded and each request has returned, exactly one config load was
\* observed.
C3_ExactlyOneLoad ==
    (herd /\ AllIdle /\ issued = NumProcs) => configLoads = 1

\* C3 amended: loads are never concurrent and at most one succeeds; every
\* failed load is followed by a new load in the next request that takes the
\* lock, so the loads observed are the failed ones plus the one that
\* succeeded, and all of the waiting requests load when every load fails.
C3_OneLoadPerAttemptUntilSuccess ==
    /\ LoadsInFlight <= 1
    /\ configLoads = failedLoads + LoadsInFlight
                        + (IF IsSome(state.sso_config) THEN 1 ELSE 0)
    /\ (herd /\ AllIdle /\ issued = NumProcs /\ IsNone(state.sso_config))
            => configLoads = NumProcs
    /\ (herd /\ AllIdle /\ issued = NumProcs /\ failedLoads = 0)
            => configLoads = 1

\* C3 witness: the callers waited together, the first load failed and the
\* second succeeded.
C3_Witness ==
    /\ herd
    /\ AllIdle
    /\ failedLoads = 1
    /\ configLoads = 2
    /\ IsSome(state.sso_config)

\* C4: at most one request is inside the resolution sequence, it is the lock
\* holder, and the lock is held exactly while a request is inside.
C4_MutualExclusion ==
    /\ Cardinality({p \in Procs : Inside(p)}) <= 1
    /\ \A p \in Procs : Inside(p) => lock = p
    /\ lock # 0 => Inside(lock)

\* C4 witness: with a clone of the provider alive, one request is in the
\* exchange while another waits for the lock.
C4_Witness ==
    /\ Cardinality(handles) >= 2
    /\ \E p, q \in Procs :
          /\ p # q
          /\ pc[p] = "get_role_credentials"
          /\ pc[q] = "lock"

\* C5: once loaded, sso_config never changes and the loader is not invoked
\* again.
C5_ConfigLoadedOnce ==
    [][IsSome(state.sso_config)
          => /\ state'.sso_config = state.sso_config
             /\ configLoads' = configLoads]_vars

\* C5 witness: with the config loaded, a later request has returned without
\* a config load.
C5_Witness ==
    /\ IsSome(state.sso_config)
    /\ issued >= 2
    /\ last.proc \in Procs
    /\ last.ops.loads = 0
    /\ configLoads = 1

\* The exchange answered and yielded no credential.
ExchangeFailed(a) ==
    \/ a.kind = "sdk_error"
    \/ IsNone(a.role_credentials)
    \/ \E f \in {"access_key_id", "secret_access_key", "session_token"} :
          IsNone(a.role_credentials.val[f])

PayloadAbsent(a) == a.kind = "output" /\ IsNone(a.role_credentials)

\* C7 as stated: a request that called the exchange and got no credential
\* never returns CredentialsNotLoaded.
C7_ExchangeFailureNeverNotLoaded ==
    (last.ops.exchanges >= 1 /\ ~last.result.ok)
        => last.result.err # CredentialsNotLoaded

\* C7 amended: a request that called the exchange and got no credential
\* returns CredentialsNotLoaded exactly when the call succeeded with an absent
\* payload; a transport failure and a missing field return another error.
C7_NotLoadedOnlyForAbsentPayload ==
    [][\A p \in Procs :
          (pc[p] = "get_role_credentials_ret" /\ TookStep(p) /\ ExchangeFailed(resp[p]))
              => /\ last'.proc = p
                 /\ ~last'.result.ok
                 /\ (last'.result.err = CredentialsNotLoaded <=> PayloadAbsent(resp[p]))]_vars

\* C7 witness: a request has called the exchange and returned
\* CredentialsNotLoaded.
C7_Witness ==
    /\ last.proc \in Procs
    /\ last.ops.exchanges = 1
    /\ last.result = Err(CredentialsNotLoaded)

FieldOrder == <<"access_key_id", "secret_access_key", "session_token">>

\* The first field of the payload, in FieldOrder, that is absent.
FirstMissing(rc) ==
    FieldOrder[CHOOSE i \in 1..3 :
                  /\ IsNone(rc[FieldOrder[i]])
                  /\ \A j \in 1..(i - 1) : IsSome(rc[FieldOrder[j]])]

\* C8: a payload with a field absent makes the request fail with
\* Unhandled(RequiredConfigMissing(f)), f the first absent field in the order
\* access_key_id, secret_access_key, session_token.
C8_FirstMissingFieldNamed ==
    [][\A p \in Procs :
          (/\ pc[p] = "get_role_credentials_ret"
           /\ TookStep(p)
           /\ resp[p].kind = "output"
           /\ IsSome(resp[p].role_credentials)
           /\ \E i \in 1..3 : IsNone(resp[p].role_credentials.val[FieldOrder[i]]))
              => /\ last'.proc = p
                 /\ last'.result =
                       Err(Unhandled(RequiredConfigMissing(
                              FirstMissing(resp[p].role_credentials.val))))]_vars

\* C8 witness: a request has failed naming secret_access_key.
C8_Witness ==
    /\ last.proc \in Procs
    /\ last.ops.exchanges = 1
    /\ last.result = Err(Unhandled(RequiredConfigMissing("secret_access_key")))

\* C9: a failed call returns ProviderError wrapping its cause, a call that
\* succeeds without a payload returns CredentialsNotLoaded, and no other
\* answer of the exchange returns either error.
C9_ExchangeOutcomeMapping ==
    [][\A p \in Procs :
          (pc[p] = "get_role_credentials_ret" /\ TookStep(p))
              => LET a == resp[p]
                     r == last'.result
                 IN  /\ last'.proc = p
                     /\ a.kind = "sdk_error" => r = Err(ProviderError(a.cause))
                     /\ PayloadAbsent(a) => r = Err(CredentialsNotLoaded)
                     /\ (a.kind = "output" /\ IsSome(a.role_credentials))
                           => (r.ok \/ r.err.type \notin {"ProviderError", "CredentialsNotLoaded"})]_vars

\* C9 witness: a request has called the exchange and returned ProviderError.
C9_Witness ==
    /\ last.proc \in Procs
    /\ last.ops.exchanges = 1
    /\ last.result = Err(ProviderError("dispatch_failure"))

\* The file answer parses to a token with a non-empty access token.
ParsesNonEmpty(a) ==
    /\ a.kind = "text"
    /\ IsSome(a.json)
    /\ \A f \in {"accessToken", "expiresAt", "region", "startUrl"} : IsSome(a.json.val[f])
    /\ a.json.val.accessToken.val # ""

\* C10: a token is kept exactly when its expires_at is strictly later than
\* the current time, both for the token held at the start of a request and
\* for the token read from the cache file.
C10_StrictExpiryBoundary ==
    [][\A p \in Procs :
          /\ (pc[p] = "check_token" /\ TookStep(p) /\ IsSome(state.cached_token))
                => IF state.cached_token.val.expires_at > now
                   THEN state'.cached_token = state.cached_token
                   ELSE IsNone(state'.cached_token)
          /\ (pc[p] = "load_token_file_ret" /\ TookStep(p) /\ ParsesNonEmpty(resp[p]))
                => (IsSome(state'.cached_token) <=> resp[p].json.val.expiresAt.val > now)]_vars

\* C10 witness: a request is at its token check holding a token that
\* expires exactly now.
C10_Witness ==
    \E p \in Procs :
        /\ pc[p] = "check_token"
        /\ IsSome(state.cached_token)
        /\ state.cached_token.val.expires_at = now

\* The token a file answer parses to (defined when every key is present).
FileToken(a) ==
    [access_token |-> a.json.val.accessToken.val,
     expires_at |-> a.json.val.expiresAt.val,
     region |-> a.json.val.region.val,
     start_url |-> a.json.val.startUrl.val]

\* C11: the token cache reader yields the file's token exactly when the file
\* is readable, parses, has a non-empty access token and expires strictly in
\* the future; every other answer (unreadable, unparsable, empty token
\* whatever its expiry, expired) yields absence, and the request then ends
\* with CredentialsNotLoaded, the reader's own error never surfacing.
C11_ReaderYieldsTokenOrAbsence ==
    [][\A p \in Procs :
          (pc[p] = "load_token_file_ret" /\ TookStep(p))
              => LET a == resp[p] IN
                 /\ state'.cached_token =
                       IF UsableFile(a, now) THEN Some(FileToken(a)) ELSE None
                 /\ (a.kind = "text" /\ IsSome(a.json) /\ IsSome(a.json.val.accessToken)
                        /\ a.json.val.accessToken.val = "")
                       => IsNone(state'.cached_token)
                 /\ IsNone(state'.cached_token)
                       => last'.result = Err(CredentialsNotLoaded)]_vars

\* C11 witness: the reader has read a file whose token is empty and expires
\* in the future.
C11_Witness ==
    \E p \in Procs :
        /\ pc[p] = "load_token_file_ret"
        /\ resp[p].kind = "text"
        /\ IsSome(resp[p].json)
        /\ resp[p].json.val.accessToken = Some("")
        /\ IsSome(resp[p].json.val.expiresAt)
        /\ resp[p].json.val.expiresAt.val > now

FullPayload(a) ==
    /\ a.kind = "output"
    /\ IsSome(a.role_credentials)
    /\ \A i \in 1..3 : IsSome(a.role_credentials.val[FieldOrder[i]])

\* C12: an exchange answer with all three fields present makes the request
\* succeed with a credential carrying exactly those values, an expiration of
\* exactly the payload's epoch seconds and the source label "sso".
C12_FullPayloadYieldsCredential ==
    [][\A p \in Procs :
          (pc[p] = "get_role_credentials_ret" /\ TookStep(p) /\ FullPayload(resp[p]))
              => LET rc == resp[p].role_credentials.val
                     r == last'.result
                 IN  /\ last'.proc = p
                     /\ r.ok
                     /\ r.val.access_key_id = rc.access_key_id.val
                     /\ r.val.secret_access_key = rc.secret_access_key.val
                     /\ r.val.session_token = Some(rc.session_token.val)
                     /\ r.val.expires_after = Some([tv_sec |-> rc.expiration, tv_nsec |-> 0])
                     /\ r.val.provider_name = "sso"]_vars

\* C12 witness: a request has returned a credential that expires at 3600.
C12_Witness ==
    /\ last.proc \in Procs
    /\ last.ops.exchanges = 1
    /\ last.result.ok
    /\ last.result.val.expires_after = Some([tv_sec |-> 3600, tv_nsec |-> 0])
    /\ last.result.val.provider_name = "sso"

\* C14: at the token check the held token is dropped exactly when it is
\* expired; the cache file is read exactly when no token is held after that;
\* a held, unexpired token goes to the exchange unchanged with no file read,
\* and a dropped token is reloaded in the same request.  The file is read at
\* no other point of a request.
C14_DropAndReloadRule ==
    [][\A p \in Procs :
          /\ (pc[p] = "check_token" /\ TookStep(p))
                => LET held == state.cached_token
                       expired == IsSome(held) /\ held.val.expires_at <= now
                   IN  /\ state'.cached_token = IF expired THEN None ELSE held
                       /\ state'.sso_config = state.sso_config
                       /\ IF IsSome(held) /\ ~expired
                          THEN /\ pc'[p] = "get_role_credentials"
                               /\ ops'[p].reads = ops[p].reads
                               /\ ops'[p].exchanges = ops[p].exchanges + 1
                          ELSE /\ pc'[p] = "load_token_file"
                               /\ ops'[p].reads = ops[p].reads + 1
                               /\ ops'[p].exchanges = ops[p].exchanges
          /\ (ops'[p].reads > ops[p].reads) => pc[p] = "check_token"]_vars

\* C14 witness: a request that found a token held and unexpired is in the
\* exchange without having read the file.
C14_Witness ==
    \E p \in Procs :
        /\ pc[p] = "get_role_credentials"
        /\ ops[p] = [loads |-> 0, reads |-> 0, exchanges |-> 1]
        /\ IsSome(state.cached_token)

\* C15: a request makes at most one config load, at most one file read and
\* at most one exchange call.
C15_NoRetries ==
    /\ \A p \in Procs :
          /\ ops[p].loads <= 1
          /\ ops[p].reads <= 1
          /\ ops[p].exchanges <= 1
    /\ last.ops.loads <= 1
    /\ last.ops.reads <= 1
    /\ last.ops.exchanges <= 1

\* C15 witness: a request has returned an error after one load, one read and
\* one exchange.
C15_Witness ==
    /\ last.proc \in Procs
    /\ last.ops = [loads |-> 1, reads |-> 1, exchanges |-> 1]
    /\ ~last.result.ok

InExchange(p) == pc[p] \in {"get_role_credentials", "get_role_credentials_ret"}

\* C16: from the call of the exchange to the return of the request the
\* provider state does not change, whatever the outcome: sso_config and the
\* held token are both retained; and a later request that finds that token
\* unexpired sends it again without reading the file.
C16_ExchangeLeavesState ==
    [][/\ (\E p \in Procs : InExchange(p))
            => /\ state' = state
               /\ IsSome(state.sso_config)
               /\ IsSome(state.cached_token)
       /\ \A p \in Procs :
            (/\ pc[p] = "check_token"
             /\ TookStep(p)
             /\ IsSome(state.cached_token)
             /\ state.cached_token.val.expires_at > now)
                => /\ pc'[p] = "get_role_credentials"
                   /\ GetRoleCredentialsRequest(state').access_token
                         = state.cached_token.val.access_token]_vars

\* C16 witness: after a request whose exchange failed, the next request is
\* in the exchange with the retained token, having read no file.
C16_Witness ==
    /\ last.proc \in Procs
    /\ last.ops.exchanges = 1
    /\ ~last.result.ok
    /\ \E p \in Procs :
          /\ pc[p] = "get_role_credentials"
          /\ ops[p] = [loads |-> 0, reads |-> 0, exchanges |-> 1]

\* C17: a failed config load leaves sso_config absent and the held token as
\* it was, and while sso_config is absent every request that takes the lock
\* starts a config load.
C17_FailedLoadNotRemembered ==
    [][\A p \in Procs :
          /\ (pc[p] = "load_sso_config_ret" /\ TookStep(p) /\ BadProfile(resp[p]))
                => /\ IsNone(state'.sso_config)
                   /\ state'.cached_token = state.cached_token
          /\ (pc[p] = "lock" /\ TookStep(p) /\ IsNone(state.sso_config))
                => /\ pc'[p] = "load_sso_config"
                   /\ configLoads' = configLoads + 1
                   /\ ops'[p].loads = 1]_vars

\* C17 witness: after a failed load, a later request is loading the config
\* again.
C17_Witness ==
    /\ failedLoads = 1
    /\ configLoads = 2
    /\ IsNone(state.sso_config)
    /\ \E p \in Procs : pc[p] = "load_sso_config"

\* C18: under FairSpec every request that was issued returns.
C18_EveryRequestReturns ==
    \A p \in Procs : (pc[p] # "idle") ~> (pc[p] = "idle")

\* C18 witness: a request waits for the lock, which a request that failed
\* has released.
C18_Witness ==
    /\ lock = 0
    /\ last.proc \in Procs
    /\ ~last.result.ok
    /\ \E q \in Procs : q # last.proc /\ pc[q] = "lock"

\* C19: a held token implies a loaded config and has a non-empty access
\* token; a token enters the state only in the step that consumes a file
\* answer, with the config loaded, and is then the file's token with
\* expires_at strictly after the current time.
C19_HeldTokenProvenance ==
    [][/\ IsSome(state'.cached_token)
            => /\ IsSome(state'.sso_config)
               /\ state'.cached_token.val.access_token # ""
       /\ (IsSome(state'.cached_token) /\ state'.cached_token # state.cached_token)
            => \E p \in Procs :
                  /\ pc[p] = "load_token_file_ret"
                  /\ TookStep(p)
                  /\ IsSome(state.sso_config)
                  /\ ParsesNonEmpty(resp[p])
                  /\ state'.cached_token = Some(FileToken(resp[p]))
                  /\ state'.cached_token.val.expires_at > now]_vars

\* C19 witness: with no request in progress, the provider holds a token
\* that has expired since it was read.
C19_Witness ==
    /\ AllIdle
    /\ IsSome(state.sso_config)
    /\ IsSome(state.cached_token)
    /\ state.cached_token.val.expires_at <= now

====
